---- MODULE Spec2Model ----
(***************************************************************************)
(* The snapshot cache and query layer of the ClusterIQ API server          *)
(* (src/cmd/api/api_server.go).                                            *)
(*                                                                         *)
(* The Redis key "Stock" holds one JSON text.  Every handler calls         *)
(* updateStock, which fetches that text and hands it to json.Unmarshal     *)
(* with the address of the package variable inven, and then reads          *)
(* inven.Accounts.  Handlers run one goroutine per request and share       *)
(* inven without synchronisation.                                          *)
(*                                                                         *)
(* JSON texts are modelled by their parse: a text that is not valid JSON   *)
(* ("malformed", and the empty text "empty" that comes with a failed       *)
(* fetch), the literal null, a well-formed value that is not an object     *)
(* ("scalar"), or an object.  Go values are modelled with the identities   *)
(* the decoder depends on: Inventory structs and account maps live in two  *)
(* heaps, and inven is a reference (0 is the nil pointer / the nil map).   *)
(***************************************************************************)
EXTENDS Integers, Sequences, FiniteSets, TLC

\* ----------------------------------------------------------------- bounds
\* processes (request goroutines) that may be in flight
NumProcs == 2
\* queries started in one behaviour
MaxQueries == 3
\* writes of the key "Stock" by the outside world in one behaviour
MaxUpdates == 2

Procs == 1..NumProcs

\* ------------------------------------------------------- Go values (heap)
\* the nil pointer and the nil map
Nil == 0

\* a map[string]T with no entry (a nil map reads the same way)
EmptyMap == [k \in {} |-> 0]

\* *inventory.Cluster: a nil pointer, or a Cluster with its fields
NilCluster == [isNil |-> TRUE, Name |-> "", Instances |-> <<>>]
Cluster(name, instances) == [isNil |-> FALSE, Name |-> name, Instances |-> instances]
ZeroCluster == Cluster("", <<>>)

\* inventory.Account
Account(name, clusters) == [Name |-> name, Clusters |-> clusters]
ZeroAccount == Account("", EmptyMap)

\* a Go slice: the nil slice, or a slice with its elements
NilSlice == [isNil |-> TRUE, elems |-> <<>>]
Slice(s) == [isNil |-> FALSE, elems |-> s]

\* append(s, x): the result of append is never the nil slice
append(s, x) == Slice(Append(s.elems, x))

\* ----------------------------------------------------- JSON texts (parsed)
Absent == [kind |-> "absent", members |-> <<>>]
JNullField == [kind |-> "null", members |-> <<>>]
JScalarField == [kind |-> "scalar", members |-> <<>>]
JObjectField(members) == [kind |-> "object", members |-> members]
Member(key, v) == [key |-> key, val |-> v]

JInstancesAbsent == [kind |-> "absent", elems |-> <<>>]
JInstances(elems) == [kind |-> "array", elems |-> elems]

JClusterNull == [kind |-> "null", name |-> "", instances |-> JInstancesAbsent]
JClusterScalar == [kind |-> "scalar", name |-> "", instances |-> JInstancesAbsent]
JCluster(name, elems) == [kind |-> "object", name |-> name, instances |-> JInstances(elems)]

JAccountNull == [kind |-> "null", name |-> "", clusters |-> Absent]
JAccountScalar == [kind |-> "scalar", name |-> "", clusters |-> Absent]
JAccount(name, clusters) == [kind |-> "object", name |-> name, clusters |-> clusters]

JEmpty == [kind |-> "empty", accounts |-> Absent]
JMalformed == [kind |-> "malformed", accounts |-> Absent]
JNull == [kind |-> "null", accounts |-> Absent]
JScalar == [kind |-> "scalar", accounts |-> Absent]
JObject(accounts) == [kind |-> "object", accounts |-> accounts]

\* ------------------------------------------------- encoding/json decoding
\* a validity check that lets the empty text through
IsValidJSON_AcceptsEmpty(doc) == doc.kind # "malformed"

\* the text passes the decoder's validity scan (checkValid), which runs
\* before the target is touched
IsValidJSON(doc) == doc.kind \notin {"empty", "malformed"}

\* []Instance from the "instances" member of a cluster object
DecodeInstances(f) == IF f.kind = "array" THEN f.elems ELSE <<>>

\* a map element of type *Cluster: null stores the nil pointer; any other
\* value allocates a Cluster, which stays zero when the value is no object
DecodeCluster(cj) ==
    CASE cj.kind = "null" -> NilCluster
      [] cj.kind = "scalar" -> ZeroCluster
      [] OTHER -> Cluster(cj.name, DecodeInstances(cj.instances))

\* a JSON object decoded into a fresh map: members are stored in text order
RECURSIVE DecodeClusterMembers(_, _)
DecodeClusterMembers(members, m) ==
    IF members = <<>> THEN m
    ELSE LET h == Head(members)
             m2 == [k \in DOMAIN m \cup {h.key} |->
                        IF k = h.key THEN DecodeCluster(h.val) ELSE m[k]]
         IN DecodeClusterMembers(Tail(members), m2)

\* the Clusters field of a zero Account
DecodeClusters(f) ==
    IF f.kind = "object" THEN DecodeClusterMembers(f.members, EmptyMap) ELSE EmptyMap

\* a map element of type Account: the decoder starts from the zero Account
\* for every key, and stores it whatever the member's value was
DecodeAccount(aj) ==
    IF aj.kind = "object" THEN Account(aj.name, DecodeClusters(aj.clusters))
    ELSE ZeroAccount

\* a store that keeps the clusters of the account already under the key
MapStore_MergesClusters(m, key, v) ==
    [k \in DOMAIN m \cup {key} |->
        IF k # key THEN m[k]
        ELSE IF key \notin DOMAIN m THEN v
        ELSE [v EXCEPT !.Clusters =
                [c \in DOMAIN m[key].Clusters \cup DOMAIN v.Clusters |->
                    IF c \in DOMAIN v.Clusters THEN v.Clusters[c]
                    ELSE m[key].Clusters[c]]]]

\* a store that leaves an entry already under the key as it is
MapStore_KeepsExisting(m, key, v) ==
    [k \in DOMAIN m \cup {key} |-> IF k \in DOMAIN m THEN m[k] ELSE v]

\* m[key] = v on a Go map
MapStore(m, key, v) == [k \in DOMAIN m \cup {key} |-> IF k = key THEN v ELSE m[k]]

\* the members of the "accounts" object stored into an existing map
RECURSIVE DecodeAccountMembers(_, _)
DecodeAccountMembers(members, m) ==
    IF members = <<>> THEN m
    ELSE DecodeAccountMembers(Tail(members),
                              MapStore(m, Head(members).key, DecodeAccount(Head(members).val)))

\* json.Unmarshal reports an UnmarshalTypeError: some value of the text has
\* the wrong JSON type for its Go target
ClusterTypeError(cj) ==
    \/ cj.kind = "scalar"
    \/ cj.kind = "object" /\ cj.instances.kind = "scalar"

AccountTypeError(aj) ==
    \/ aj.kind = "scalar"
    \/ /\ aj.kind = "object"
       /\ \/ aj.clusters.kind = "scalar"
          \/ \E i \in DOMAIN aj.clusters.members : ClusterTypeError(aj.clusters.members[i].val)

HasTypeError(doc) ==
    \/ doc.kind = "scalar"
    \/ /\ doc.kind = "object"
       /\ \/ doc.accounts.kind = "scalar"
          \/ \E i \in DOMAIN doc.accounts.members : AccountTypeError(doc.accounts.members[i].val)

\* json.Unmarshal returns nil
UnmarshalOK(doc) == IsValidJSON(doc) /\ ~HasTypeError(doc)

\* The whole of json.Unmarshal([]byte(val), &inven) on a held Inventory given
\* by value: h.isNil says inven = nil, h.Accounts is the held map.
NilInventory == [isNil |-> TRUE, Accounts |-> EmptyMap]
Inventory(accounts) == [isNil |-> FALSE, Accounts |-> accounts]

Unmarshal(doc, h) ==
    CASE ~IsValidJSON(doc) -> h
      [] doc.kind = "null" -> NilInventory
      [] doc.kind = "scalar" -> Inventory(h.Accounts)
      [] OTHER ->
           CASE doc.accounts.kind = "null" -> Inventory(EmptyMap)
             [] doc.accounts.kind = "object" ->
                  Inventory(DecodeAccountMembers(doc.accounts.members, h.Accounts))
             [] OTHER -> Inventory(h.Accounts)

\* inventory.NewInventory(): an Inventory with an empty accounts map
NewInventory == Inventory(EmptyMap)


\* ------------------------------------------------------------ the texts
\* The texts the outside world may write under the key: a closed set of
\* small documents over two account names, two cluster names and three
\* instances, covering each shape the decoder tells apart.  A text is
\* written here as its name; Parse gives its parse.
\*   S1  {"accounts":{"a":{"name":"a","clusters":{"c":{"name":"c","instances":[1,2]}}}}}
\*   S2  {"accounts":{"b":{"name":"b","clusters":{"c":{"name":"c","instances":[3]}}}}}
\*   S3  {"accounts":{"a":{"name":"a","clusters":{"d":{"name":"d","instances":[]}}}}}
\*   S4  {"accounts":{"a":{"name":"a","clusters":{"c":{"name":"c","instances":[1,2]},"d":{"name":"d","instances":[3]}}}}}
\*   SWrongShape  {"accounts":{"a":{"name":"a","clusters":{"c":{"name":"c","instances":[1]}}},"b":7}}
\*   SNilCluster  {"accounts":{"b":{"name":"b","clusters":{"d":null}}}}
S1 == "S1"
S2 == "S2"
S3 == "S3"
S4 == "S4"
SWrongShape == "SWrongShape"
SNilCluster == "SNilCluster"
SEmpty == "{\"accounts\":{}}"
SNullField == "{\"accounts\":null}"
SNoField == "{}"
NullText == "null"
ScalarText == "7"
MalformedText == "{"
\* the val that comes with a failed fetch
EmptyText == ""

Parse(text) ==
    CASE text = S1 -> JObject(JObjectField(<<
            Member("a", JAccount("a", JObjectField(<<Member("c", JCluster("c", <<1, 2>>))>>)))>>))
      [] text = S2 -> JObject(JObjectField(<<
            Member("b", JAccount("b", JObjectField(<<Member("c", JCluster("c", <<3>>))>>)))>>))
      [] text = S3 -> JObject(JObjectField(<<
            Member("a", JAccount("a", JObjectField(<<Member("d", JCluster("d", <<>>))>>)))>>))
      [] text = S4 -> JObject(JObjectField(<<
            Member("a", JAccount("a", JObjectField(<<Member("c", JCluster("c", <<1, 2>>)),
                                                     Member("d", JCluster("d", <<3>>))>>)))>>))
      [] text = SWrongShape -> JObject(JObjectField(<<
            Member("a", JAccount("a", JObjectField(<<Member("c", JCluster("c", <<1>>))>>))),
            Member("b", JAccountScalar)>>))
      [] text = SNilCluster -> JObject(JObjectField(<<
            Member("b", JAccount("b", JObjectField(<<Member("d", JClusterNull)>>)))>>))
      [] text = SEmpty -> JObject(JObjectField(<<>>))
      [] text = SNullField -> JObject(JNullField)
      [] text = SNoField -> JObject(Absent)
      [] text = NullText -> JNull
      [] text = ScalarText -> JScalar
      [] text = EmptyText -> JEmpty
      [] OTHER -> JMalformed

\* the Inventory a text encodes: what decoding it into a new Inventory gives
Encoded(text) == Unmarshal(Parse(text), NewInventory)

Blobs == {S1, S2, S3, S4, SEmpty, SNullField, SNoField, SWrongShape, SNilCluster,
          NullText, ScalarText, MalformedText}

\* the texts written while requests overlap: three snapshots, the text with
\* a null cluster and the null text
ConcBlobs == {S1, S2, S3, SNilCluster, NullText}

\* the key "Stock" does not exist in the store
NoKey == "(nil)"

\* the writes made to the key while requests overlap, each as the text under
\* the key before it and the text written: a first snapshot or the null text,
\* or the text with a null cluster, then after a snapshot another account,
\* the same account anew or null, and after null a snapshot
ConcWrites == {<<NoKey, S1>>, <<NoKey, NullText>>, <<NoKey, SNilCluster>>,
               <<S1, S2>>, <<S1, S3>>,
               <<S1, NullText>>, <<NullText, S1>>}

\* request parameters (the :name of the two by-name routes)
AccountParams == {"a", "b"}
ClusterParams == {"c", "C"}
\* the parameters of overlapping requests
ConcAccountParams == {"a"}
ConcClusterParams == {"c"}

\* ---------------------------------------------------------- the responses
NoResponse == [kind |-> "none", status |-> 0, Count |-> 0, Items |-> NilSlice, Body |-> ZeroAccount]
\* the handler panicked: net/http drops the connection, nothing is written
Panicked == [kind |-> "panic", status |-> 0, Count |-> 0, Items |-> NilSlice, Body |-> ZeroAccount]
\* c.Status(http.StatusNotFound)
NotFound == [kind |-> "notfound", status |-> 404, Count |-> 0, Items |-> NilSlice, Body |-> ZeroAccount]
\* c.PureJSON(http.StatusOK, account)
AccountBody(account) == [kind |-> "account", status |-> 200, Count |-> 0, Items |-> NilSlice, Body |-> account]
\* c.PureJSON(http.StatusOK, response) for a list response
ListBody(r) == [kind |-> "list", status |-> 200, Count |-> r.Count, Items |-> r.Items, Body |-> ZeroAccount]

\* NewInstanceListResponse without the replacement of an empty list
NewInstanceListResponse_KeepsNil(instances) ==
    [Count |-> Len(instances.elems), Items |-> instances]

NewInstanceListResponse(instances) ==
    [Count |-> Len(instances.elems),
     Items |-> IF Len(instances.elems) = 0 THEN Slice(<<>>) ELSE instances]

NewClusterListResponse(clusters) ==
    [Count |-> Len(clusters.elems),
     Items |-> IF Len(clusters.elems) = 0 THEN Slice(<<>>) ELSE clusters]

NewAccountListResponse(accounts) ==
    [Count |-> Len(accounts.elems),
     Items |-> IF Len(accounts.elems) = 0 THEN Slice(<<>>) ELSE accounts]

\* ------------------------------------------------ the bodies of the loops
\* One iteration of the outer loop of each list handler: the account's
\* clusters are visited in the order `order` (Go ranges over a map in an
\* unspecified order).  r.panicked: a nil *Cluster was dereferenced.
Visit(acc) == [panicked |-> FALSE, acc |-> acc]
Panic(acc) == [panicked |-> TRUE, acc |-> acc]

\* the instances of a cluster appended last one first
RECURSIVE AppendAll_Reversed(_, _)
AppendAll_Reversed(acc, instances) ==
    IF instances = <<>> THEN acc
    ELSE append(AppendAll_Reversed(acc, Tail(instances)), Head(instances))

\* instances = append(instances, cluster.Instances...)
RECURSIVE AppendAll(_, _)
AppendAll(acc, instances) ==
    IF instances = <<>> THEN acc
    ELSE AppendAll(append(acc, Head(instances)), Tail(instances))

RECURSIVE getInstancesLoop(_, _, _)
getInstancesLoop(account, order, acc) ==
    IF order = <<>> THEN Visit(acc)
    ELSE LET cluster == account.Clusters[Head(order)]
         IN IF cluster.isNil THEN Panic(acc)
            ELSE getInstancesLoop(account, Tail(order), AppendAll(acc, cluster.Instances))

RECURSIVE getClustersLoop(_, _, _)
getClustersLoop(account, order, acc) ==
    IF order = <<>> THEN Visit(acc)
    ELSE LET cluster == account.Clusters[Head(order)]
         IN IF cluster.isNil THEN Panic(acc)
            ELSE getClustersLoop(account, Tail(order), append(acc, cluster))

RECURSIVE getClustersByNameLoop(_, _, _, _)
getClustersByNameLoop(name, account, order, acc) ==
    IF order = <<>> THEN Visit(acc)
    ELSE LET cluster == account.Clusters[Head(order)]
         IN IF cluster.isNil THEN Panic(acc)
            ELSE getClustersByNameLoop(name, account, Tail(order),
                     IF cluster.Name = name THEN append(acc, cluster) ELSE acc)

getAccountsLoop(account, acc) == Visit(append(acc, account))

LoopBody(op, name, account, order, acc) ==
    CASE op = "getInstances" -> getInstancesLoop(account, order, acc)
      [] op = "getClusters" -> getClustersLoop(account, order, acc)
      [] op = "getClustersByName" -> getClustersByNameLoop(name, account, order, acc)
      [] OTHER -> getAccountsLoop(account, acc)

\* the response a list handler builds from the slice it collected
ListResponse(op, acc) ==
    CASE op = "getInstances" -> ListBody(NewInstanceListResponse(acc))
      [] op = "getAccounts" -> ListBody(NewAccountListResponse(acc))
      [] OTHER -> ListBody(NewClusterListResponse(acc))

\* the orders in which a range over a map with key set S may produce its keys
Orders(S) == {o \in [1..Cardinality(S) -> S] : \A i, j \in 1..Cardinality(S) : o[i] = o[j] => i = j}

ListOps == {"getInstances", "getClusters", "getClustersByName", "getAccounts"}

\* ------------------------------------------------------------- the state
VARIABLES
    store,       \* rdb: the text under redisKey, or NoKey
    storeVer,    \* how many times the outside world has written the key
    inven,       \* the package variable inven: a reference into structs, or Nil
    structs,     \* the Inventory structs allocated so far: their Accounts field,
                 \* a reference into maps, or Nil
    maps,        \* the account maps allocated so far
    loaded,      \* some json.Unmarshal so far returned nil
    proc,        \* the request goroutines
    started,     \* queries started so far
    crashed,     \* the runtime stopped the process (concurrent map access)
    concurrent   \* requests may overlap

vars == <<store, storeVer, inven, structs, maps, loaded, proc, started, crashed, concurrent>>

\* the accounts map a struct's field refers to
MapOf(ref) == IF ref = Nil THEN EmptyMap ELSE maps[ref]

\* the held Inventory, by value
Held == IF inven = Nil THEN NilInventory ELSE Inventory(MapOf(structs[inven]))

\* what is remembered of the request served just before this one when it was
\* the same query with the same parameter: the store's version at its fetch,
\* whether its fetch failed, and its response.  It is forgotten once the
\* store has been written since, or when this request's fetch has the other
\* outcome.
NoPrev == [fver |-> 0, failed |-> FALSE, resp |-> NoResponse]

\* A request goroutine.  Beside the handler's position and locals it records,
\* for the properties: gets and unms (the calls of rdb.Get and json.Unmarshal
\* made for this request), logged (logger.Error was called), after (the
\* goroutines whose request was in flight when this one arrived), overl
\* (another request was in flight during this one), before (the goroutines
\* whose request stood answered when this one was answered) and prev.
IdleProc ==
    [pc |-> "idle", op |-> "", name |-> "", val |-> EmptyText, err |-> "none",
     fver |-> 0, target |-> Nil, upos |-> 0, smap |-> Nil, slot |-> "",
     copied |-> {},
     hinv |-> Nil, tmap |-> Nil, tstart |-> {},
     visited |-> {}, acc |-> NilSlice, pre |-> NewInventory,
     seen |-> EmptyMap, resp |-> NoResponse,
     gets |-> 0, unms |-> 0, logged |-> FALSE, after |-> {}, overl |-> FALSE,
     before |-> {}, prev |-> NoPrev]

\* the request of p has been dispatched and not answered yet
InFlight(p) == proc[p].pc \notin {"idle", "done"}

\* the goroutines other than q whose request stands answered
Answered(q) == {p \in Procs \ {q} : proc[p].pc = "done"}

\* json.Unmarshal returns in q: the decoder's locals are gone and the handler
\* is about to read inven
Returned(q) ==
    [proc[q] EXCEPT !.pc = "read", !.target = Nil, !.upos = 0, !.smap = Nil, !.slot = "",
                    !.copied = {}]

\* q's handler ends with the response resp (or by a panic): its locals are gone
Answer(q, resp) ==
    [proc[q] EXCEPT !.pc = "done", !.resp = resp, !.before = Answered(q),
                    !.target = Nil, !.upos = 0, !.smap = Nil, !.slot = "",
                    !.copied = {}, !.hinv = Nil, !.tmap = Nil,
                    !.tstart = {}, !.visited = {}]

\* init(): inven = inventory.NewInventory(); main(): the router serves
InitCommon ==
    /\ store = NoKey
    /\ storeVer = 0
    /\ structs = <<1>>
    /\ maps = <<EmptyMap>>
    /\ inven = 1
    /\ loaded = FALSE
    /\ proc = [q \in Procs |-> IdleProc]
    /\ started = 0
    /\ crashed = FALSE

\* one request at a time
Init == InitCommon /\ concurrent = FALSE

\* requests served concurrently, one goroutine each
ConcInit == InitCommon /\ concurrent = TRUE

\* ------------------------------------------------------------ the actions
\* the outside world writes the key, or deletes it
StoreUpdate ==
    /\ ~crashed
    /\ storeVer < MaxUpdates
    /\ \E t \in (IF concurrent THEN ConcBlobs ELSE Blobs \cup {NoKey}) :
         /\ t # store
         /\ concurrent => <<store, t>> \in ConcWrites
         /\ store' = t
    /\ storeVer' = storeVer + 1
    /\ UNCHANGED <<inven, structs, maps, loaded, proc, started, crashed, concurrent>>

\* the router dispatches a request to its handler
Handle(q, op, name) ==
    /\ ~crashed
    /\ started < MaxQueries
    /\ proc[q].pc \in {"idle", "done"}
    \* goroutines are taken into use in the order of their numbers
    /\ \A p \in 1..(q - 1) : proc[p].pc # "idle"
    /\ concurrent \/ (q = 1 /\ \A p \in Procs \ {q} : proc[p].pc = "idle")
    /\ proc' = [p \in Procs |->
         IF p = q
         THEN [IdleProc EXCEPT !.pc = "get", !.op = op, !.name = name,
                               !.after = {r \in Procs \ {q} : InFlight(r)},
                               !.overl = \E r \in Procs \ {q} : InFlight(r),
                               !.prev = IF /\ ~concurrent
                                           /\ proc[q].pc = "done"
                                           /\ proc[q].op = op
                                           /\ proc[q].name = name
                                           /\ proc[q].fver = storeVer
                                        THEN [fver |-> proc[q].fver,
                                              failed |-> proc[q].err # "none",
                                              resp |-> proc[q].resp]
                                        ELSE NoPrev]
         ELSE [proc[p] EXCEPT !.overl = @ \/ InFlight(p),
                              !.after = @ \ {q}, !.before = @ \ {q}]]
    /\ started' = started + 1
    /\ UNCHANGED <<store, storeVer, inven, structs, maps, loaded, crashed, concurrent>>

getInstances(q) == Handle(q, "getInstances", "")
getClusters(q) == Handle(q, "getClusters", "")
getClustersByName(q) ==
    \E name \in (IF concurrent THEN ConcClusterParams ELSE ClusterParams) :
        Handle(q, "getClustersByName", name)
getAccounts(q) == Handle(q, "getAccounts", "")
getAccountsByName(q) ==
    \E name \in (IF concurrent THEN ConcAccountParams ELSE AccountParams) :
        Handle(q, "getAccountsByName", name)

\* The held Inventory a refresh starts from, recorded at its fetch for
\* requests served one at a time; among overlapping requests the decoder
\* starts from whatever the others have left by then, and nothing is recorded.
BeforeRefresh == IF concurrent THEN NewInventory ELSE Held

\* a fetch that does not log the error redis.Nil
Fetched_LogsOnlyConn(q, val, err) ==
    proc' = [proc EXCEPT ![q] = [@ EXCEPT !.pc = "unmarshal", !.val = val, !.err = err,
                                          !.fver = storeVer, !.pre = BeforeRefresh,
                                          !.gets = @ + 1, !.logged = (err = "conn"),
                                          !.prev = IF /\ @.fver = storeVer
                                                      /\ @.failed = (err # "none")
                                                   THEN @ ELSE NoPrev]]

\* updateStock, first two statements: val, err := rdb.Get(ctx, redisKey).Result()
\* and if err != nil { logger.Error(...) }
Fetched(q, val, err) ==
    proc' = [proc EXCEPT ![q] = [@ EXCEPT !.pc = "unmarshal", !.val = val, !.err = err,
                                          !.fver = storeVer, !.pre = BeforeRefresh,
                                          !.gets = @ + 1, !.logged = (err # "none"),
                                          !.prev = IF /\ @.fver = storeVer
                                                      /\ @.failed = (err # "none")
                                                   THEN @ ELSE NoPrev]]

\* the key exists and the store answers
GetValue(q) ==
    /\ ~crashed
    /\ proc[q].pc = "get"
    /\ store # NoKey
    /\ Fetched(q, store, "none")
    /\ UNCHANGED <<store, storeVer, inven, structs, maps, loaded, started, crashed, concurrent>>

\* the key does not exist: err is redis.Nil and val is ""
GetNil(q) ==
    /\ ~crashed
    /\ proc[q].pc = "get"
    /\ store = NoKey
    /\ Fetched(q, EmptyText, "nil")
    /\ UNCHANGED <<store, storeVer, inven, structs, maps, loaded, started, crashed, concurrent>>

\* a fetch that is tried again after a transport error
GetDown_Retries(q) ==
    /\ ~crashed
    /\ proc[q].pc = "get"
    /\ proc' = [proc EXCEPT ![q] = [@ EXCEPT !.gets = 1, !.logged = TRUE]]
    /\ UNCHANGED <<store, storeVer, inven, structs, maps, loaded, started, crashed, concurrent>>

\* the store is unreachable or times out: err is a transport error and val is ""
GetDown(q) ==
    /\ ~crashed
    /\ proc[q].pc = "get"
    /\ Fetched(q, EmptyText, "conn")
    /\ UNCHANGED <<store, storeVer, inven, structs, maps, loaded, started, crashed, concurrent>>

\* updateStock, last statement: json.Unmarshal([]byte(val), &inven).  The
\* decoder works on the package variable inven through reflection, with no
\* lock: each of its reads and writes of inven and of the Accounts field is a
\* step of its own.
\* First the decoder scans the whole text and returns if it is not valid
\* JSON.  For null it stores nil into inven (literalStore: SetZero).  For any
\* other value it goes through indirect(), which begins by testing inven for
\* nil.
UnmarshalBegin(q) ==
    LET doc == Parse(proc[q].val) IN
    /\ ~crashed
    /\ proc[q].pc = "unmarshal"
    /\ IF ~IsValidJSON(doc)
       THEN /\ UNCHANGED <<inven, loaded>>
            /\ proc' = [proc EXCEPT ![q] = [@ EXCEPT !.pc = "read", !.unms = @ + 1]]
       ELSE IF doc.kind = "null"
       THEN /\ inven' = Nil
            /\ loaded' = TRUE
            /\ proc' = [proc EXCEPT ![q] = [@ EXCEPT !.pc = "read", !.unms = @ + 1]]
       ELSE /\ UNCHANGED inven
            /\ loaded' = (loaded \/ UnmarshalOK(doc))
            /\ proc' = [proc EXCEPT ![q] =
                 [@ EXCEPT !.pc = IF inven = Nil THEN "new" ELSE "elem", !.unms = @ + 1]]
    /\ UNCHANGED <<store, storeVer, structs, maps, started, crashed, concurrent>>

\* indirect(), inven was nil: v.Set(reflect.New(...)) stores a new Inventory
\* into inven
UnmarshalNew(q) ==
    /\ ~crashed
    /\ proc[q].pc = "new"
    /\ structs' = Append(structs, Nil)
    /\ inven' = Len(structs) + 1
    /\ proc' = [proc EXCEPT ![q] = [@ EXCEPT !.pc = "elem"]]
    /\ UNCHANGED <<store, storeVer, maps, loaded, started, crashed, concurrent>>

\* indirect(): v = v.Elem() reads inven again and the decoder goes on with the
\* struct it refers to now; with inven nil by now Elem gives the zero Value and
\* the decoder panics on it.  A text that is an object with an "accounts"
\* member goes on to the field; any other value ends the decoding.
UnmarshalElem(q) ==
    LET doc == Parse(proc[q].val) IN
    /\ ~crashed
    /\ proc[q].pc = "elem"
    /\ proc' = [proc EXCEPT ![q] =
         IF inven = Nil THEN Answer(q, Panicked)
         ELSE IF doc.kind = "object" /\ doc.accounts.kind \in {"null", "object"}
         THEN [@ EXCEPT !.pc = "field", !.target = inven]
         ELSE Returned(q)]
    /\ UNCHANGED <<store, storeVer, inven, structs, maps, loaded, started, crashed, concurrent>>

\* the member "accounts": null stores the nil map into the field; for an
\* object the decoder tests the field for nil (d.object: v.IsNil())
UnmarshalField(q) ==
    LET fld == Parse(proc[q].val).accounts
        s == proc[q].target
    IN
    /\ ~crashed
    /\ proc[q].pc = "field"
    /\ IF fld.kind = "null"
       THEN /\ structs' = [structs EXCEPT ![s] = Nil]
            /\ proc' = [proc EXCEPT ![q] = Returned(q)]
       ELSE /\ UNCHANGED structs
            /\ proc' = [proc EXCEPT ![q] =
                 IF structs[s] = Nil THEN [@ EXCEPT !.pc = "mkmap"]
                 ELSE IF fld.members # <<>> THEN [@ EXCEPT !.pc = "write", !.upos = 1]
                 ELSE Returned(q)]
    /\ UNCHANGED <<store, storeVer, inven, maps, loaded, started, crashed, concurrent>>

\* the field was nil: v.Set(reflect.MakeMap(t)) stores a new map into it
UnmarshalMakeMap(q) ==
    LET fld == Parse(proc[q].val).accounts
        s == proc[q].target
    IN
    /\ ~crashed
    /\ proc[q].pc = "mkmap"
    /\ maps' = Append(maps, EmptyMap)
    /\ structs' = [structs EXCEPT ![s] = Len(maps) + 1]
    /\ proc' = [proc EXCEPT ![q] =
         IF fld.members # <<>> THEN [@ EXCEPT !.pc = "write", !.upos = 1] ELSE Returned(q)]
    /\ UNCHANGED <<store, storeVer, inven, loaded, started, crashed, concurrent>>

\* json.Unmarshal, the decoder's loop over the members of "accounts": the
\* member at upos is decoded into a zero Account, which reflect's SetMapIndex
\* stores under its key in the map the target struct's field refers to now.
\* The store is two accesses of the map with no lock held between them: the
\* runtime's mapassign finds the key's slot, inserting the key with the zero
\* Account when it is new, and the value is copied into the slot afterwards.

\* where mapassign leaves the map m for the key
MapAssign(m, key) == IF key \in DOMAIN m THEN m ELSE MapStore(m, key, ZeroAccount)

\* mapassign (it panics on a nil map)
UnmarshalWrite(q) ==
    LET members == Parse(proc[q].val).accounts.members
        mem == members[proc[q].upos]
        m == structs[proc[q].target]
    IN
    /\ ~crashed
    /\ proc[q].pc = "write"
    /\ IF m = Nil
       THEN /\ proc' = [proc EXCEPT ![q] = Answer(q, Panicked)]
            /\ UNCHANGED maps
       ELSE /\ maps' = [maps EXCEPT ![m] = MapAssign(@, mem.key)]
            /\ proc' = [proc EXCEPT ![q] = [@ EXCEPT !.pc = "copy", !.smap = m, !.slot = mem.key]]
    /\ UNCHANGED <<store, storeVer, inven, structs, loaded, started, crashed, concurrent>>

\* the Account the decoder of q is copying into its slot
Pending(q) == DecodeAccount(Parse(proc[q].val).accounts.members[proc[q].upos].val)

\* the parts an Account is copied in: the string header of Name and the map
\* reference of Clusters
AccountFields == {"Name", "Clusters"}

\* The copy of the value into the slot mapassign returned.  The Account is
\* several words and the copy is no single store: one step copies one part
\* not copied yet, in no particular order, over whatever the slot holds by
\* then, so that two goroutines copying into one slot can leave the name of
\* one Account with the clusters of the other.
UnmarshalCopy(q) ==
    LET members == Parse(proc[q].val).accounts.members
        last == proc[q].upos = Len(members)
        m == proc[q].smap
        k == proc[q].slot
    IN
    /\ ~crashed
    /\ proc[q].pc = "copy"
    /\ \E f \in AccountFields \ proc[q].copied :
         /\ maps' = [maps EXCEPT ![m] = MapStore(@, k, [maps[m][k] EXCEPT ![f] = Pending(q)[f]])]
         /\ proc' = [proc EXCEPT ![q] =
              IF proc[q].copied \cup {f} # AccountFields THEN [@ EXCEPT !.copied = @ \cup {f}]
              ELSE IF last THEN Returned(q)
              ELSE [@ EXCEPT !.pc = "write", !.upos = @ + 1, !.smap = Nil, !.slot = "",
                             !.copied = {}]]
    /\ UNCHANGED <<store, storeVer, inven, structs, loaded, started, crashed, concurrent>>

\* Two decoders in mapassign on one map at the same time, each with a key the
\* map does not have, and the runtime does not notice: both may take the same
\* free slot.  The slot keeps the key of one of them (p), the key of the
\* other is not inserted, and both go on to copy their value into that slot.
MapAssignRace(p, q) ==
    LET m == structs[proc[p].target]
        kp == Parse(proc[p].val).accounts.members[proc[p].upos].key
        kq == Parse(proc[q].val).accounts.members[proc[q].upos].key
    IN
    /\ ~crashed
    /\ p # q
    /\ proc[p].pc = "write" /\ proc[q].pc = "write"
    /\ m # Nil /\ structs[proc[q].target] = m
    /\ kp # kq /\ kp \notin DOMAIN maps[m] /\ kq \notin DOMAIN maps[m]
    /\ maps' = [maps EXCEPT ![m] = MapAssign(@, kp)]
    /\ proc' = [proc EXCEPT ![p] = [@ EXCEPT !.pc = "copy", !.smap = m, !.slot = kp],
                            ![q] = [@ EXCEPT !.pc = "copy", !.smap = m, !.slot = kp]]
    /\ UNCHANGED <<store, storeVer, inven, structs, loaded, started, crashed, concurrent>>

\* What q may read under the key k of the map mid.  The read copies the
\* Account out of the slot part by part with no lock held: each part is the
\* one in the slot now or, read later, the one a goroutine that is copying
\* into the slot puts there.
MapRead(mid, k, q) ==
    LET writers == {p \in Procs \ {q} : /\ proc[p].pc = "copy"
                                         /\ proc[p].smap = mid
                                         /\ proc[p].slot = k}
        sources == {maps[mid][k]} \cup {Pending(p) : p \in writers}
    IN {Account(n.Name, c.Clusters) : n \in sources, c \in sources}

\* A handler, after updateStock, evaluates inven.Accounts: it loads inven and
\* then the Accounts field of the struct that refers to.
\* inven.Accounts with inven nil panics
DerefNil(q) ==
    /\ ~crashed
    /\ proc[q].pc = "read"
    /\ inven = Nil
    /\ proc' = [proc EXCEPT ![q] = Answer(q, Panicked)]
    /\ UNCHANGED <<store, storeVer, inven, structs, maps, loaded, started, crashed, concurrent>>

\* inven is loaded and is not nil
LoadInven(q) ==
    /\ ~crashed
    /\ proc[q].pc = "read"
    /\ inven # Nil
    /\ proc' = [proc EXCEPT ![q] = [@ EXCEPT !.pc = "accounts", !.hinv = inven]]
    /\ UNCHANGED <<store, storeVer, inven, structs, maps, loaded, started, crashed, concurrent>>

\* getAccountsByName: account, ok := inven.Accounts[name], then the response
Lookup(q) ==
    LET mid == structs[proc[q].hinv]
        m == MapOf(mid)
    IN
    /\ ~crashed
    /\ proc[q].pc = "accounts"
    /\ proc[q].op = "getAccountsByName"
    /\ IF proc[q].name \in DOMAIN m
       THEN \E account \in MapRead(mid, proc[q].name, q) :
               proc' = [proc EXCEPT ![q] =
                  [Answer(q, AccountBody(account))
                     EXCEPT !.seen = MapStore(m, proc[q].name, account)]]
       ELSE proc' = [proc EXCEPT ![q] = [Answer(q, NotFound) EXCEPT !.seen = m]]
    /\ UNCHANGED <<store, storeVer, inven, structs, maps, loaded, started, crashed, concurrent>>

\* a list handler: var items []T; for _, account := range inven.Accounts
\* evaluates inven.Accounts once and iterates over that map
RangeBegin(q) ==
    /\ ~crashed
    /\ proc[q].pc = "accounts"
    /\ proc[q].op \in ListOps
    /\ proc' = [proc EXCEPT ![q] =
         [@ EXCEPT !.pc = "range", !.tmap = structs[proc[q].hinv],
                   !.tstart = DOMAIN MapOf(structs[proc[q].hinv]), !.visited = {},
                   !.acc = NilSlice, !.hinv = Nil]]
    /\ UNCHANGED <<store, storeVer, inven, structs, maps, loaded, started, crashed, concurrent>>

\* one iteration of the range: an entry not produced yet, in no particular
\* order, with the value read from the map for it now
RangeNext(q) ==
    /\ ~crashed
    /\ proc[q].pc = "range"
    /\ \E k \in DOMAIN MapOf(proc[q].tmap) \ proc[q].visited :
         \E account \in MapRead(proc[q].tmap, k, q) :
         \E order \in Orders(DOMAIN account.Clusters) :
            LET r == LoopBody(proc[q].op, proc[q].name, account, order, proc[q].acc) IN
            proc' = [proc EXCEPT ![q] =
               IF r.panicked
               THEN Answer(q, Panicked)
               ELSE [@ EXCEPT !.acc = r.acc, !.visited = @ \cup {k},
                              !.seen = MapStore(@, k, account)]]
    /\ UNCHANGED <<store, storeVer, inven, structs, maps, loaded, started, crashed, concurrent>>

\* the range ends once every entry that was in the map when it began has been
\* produced (an entry stored during the range may be skipped); the handler
\* wraps the slice and writes the response
Respond(q) ==
    /\ ~crashed
    /\ proc[q].pc = "range"
    /\ proc[q].tstart \subseteq proc[q].visited
    /\ proc' = [proc EXCEPT ![q] = Answer(q, ListResponse(proc[q].op, proc[q].acc))]
    /\ UNCHANGED <<store, storeVer, inven, structs, maps, loaded, started, crashed, concurrent>>

\* p is about to store into a map that q is about to read, range over or
\* store into: when the two accesses overlap the Go runtime may detect it and
\* stop the process (fatal error: concurrent map read and map write)
MapRace(p, q) ==
    LET m == structs[proc[p].target] IN
    /\ p # q
    /\ proc[p].pc = "write"
    /\ m # Nil
    /\ \/ proc[q].pc = "range" /\ proc[q].tmap = m
       \/ proc[q].pc = "write" /\ structs[proc[q].target] = m
       \/ proc[q].pc = "accounts" /\ structs[proc[q].hinv] = m

RaceFatal ==
    /\ ~crashed
    /\ \E p, q \in Procs : MapRace(p, q)
    /\ crashed' = TRUE
    /\ UNCHANGED <<store, storeVer, inven, structs, maps, loaded, proc, started, concurrent>>

Next ==
    \/ StoreUpdate
    \/ \E q \in Procs : getInstances(q)
    \/ \E q \in Procs : getClusters(q)
    \/ \E q \in Procs : getClustersByName(q)
    \/ \E q \in Procs : getAccounts(q)
    \/ \E q \in Procs : getAccountsByName(q)
    \/ \E q \in Procs : GetValue(q)
    \/ \E q \in Procs : GetNil(q)
    \/ \E q \in Procs : GetDown(q)
    \/ \E q \in Procs : UnmarshalBegin(q)
    \/ \E q \in Procs : UnmarshalNew(q)
    \/ \E q \in Procs : UnmarshalElem(q)
    \/ \E q \in Procs : UnmarshalField(q)
    \/ \E q \in Procs : UnmarshalMakeMap(q)
    \/ \E q \in Procs : UnmarshalWrite(q)
    \/ \E q \in Procs : UnmarshalCopy(q)
    \/ \E q \in Procs : DerefNil(q)
    \/ \E q \in Procs : LoadInven(q)
    \/ \E q \in Procs : Lookup(q)
    \/ \E q \in Procs : RangeBegin(q)
    \/ \E q \in Procs : RangeNext(q)
    \/ \E q \in Procs : Respond(q)

ConcNext ==
    \/ Next
    \/ \E p, q \in Procs : MapAssignRace(p, q)
    \/ RaceFatal

\* requests one at a time
Spec == Init /\ [][Next]_vars

\* requests in concurrent goroutines
ConcSpec == ConcInit /\ [][ConcNext]_vars

\* ------------------------------------------------------------ properties
\* the refresh of q's request ended with a successful fetch whose text
\* deserialized without error
RefreshSucceeded(q) == proc[q].err = "none" /\ UnmarshalOK(Parse(proc[q].val))

\* updateStock has returned in q and the handler has not read inven yet
AfterRefresh(q) == proc[q].pc = "read"

\* seq holds exactly the values V(i), i in I: each once, none missing, none extra
SameItems(seq, I, V(_)) ==
    /\ Len(seq) = Cardinality(I)
    /\ \A i \in I : Cardinality({j \in DOMAIN seq : seq[j] = V(i)})
                    = Cardinality({i2 \in I : V(i2) = V(i)})

\* the (account, cluster) pairs and (account, cluster, position) triples of
\* an accounts map
ClusterIndex(A) == UNION {{<<k, c>> : c \in DOMAIN A[k].Clusters} : k \in DOMAIN A}
InstanceIndex(A) ==
    UNION {{<<x[1], x[2], i>> : i \in DOMAIN A[x[1]].Clusters[x[2]].Instances} :
             x \in ClusterIndex(A)}

\* the items of a list response are exactly those of the accounts map A
ListsExactly(op, name, r, A) ==
    /\ r.kind = "list"
    /\ CASE op = "getAccounts" ->
              SameItems(r.Items.elems, DOMAIN A, LAMBDA k : A[k])
         [] op = "getClusters" ->
              SameItems(r.Items.elems, ClusterIndex(A), LAMBDA x : A[x[1]].Clusters[x[2]])
         [] op = "getClustersByName" ->
              SameItems(r.Items.elems,
                        {x \in ClusterIndex(A) : A[x[1]].Clusters[x[2]].Name = name},
                        LAMBDA x : A[x[1]].Clusters[x[2]])
         [] OTHER ->
              SameItems(r.Items.elems, InstanceIndex(A),
                        LAMBDA x : A[x[1]].Clusters[x[2]].Instances[x[3]])

\* C1: whenever a refresh succeeds, the held Inventory equals exactly the
\* inventory encoded by the fetched text (replaced, not merged).
C1_HeldIsFetchedSnapshot ==
    \A q \in Procs : AfterRefresh(q) /\ RefreshSucceeded(q) => Held = Encoded(proc[q].val)

\* C2: when the fetch fails, the held Inventory is unchanged and the query
\* does not fail: it answers from the previous snapshot.
C2_FetchFailureServesPrevious ==
    \A q \in Procs :
        proc[q].err # "none" =>
            /\ AfterRefresh(q) => Held = proc[q].pre
            /\ proc[q].pc = "done" =>
                 /\ proc[q].resp.kind \in {"list", "account", "notfound"}
                 /\ proc[q].op \in ListOps =>
                      ListsExactly(proc[q].op, proc[q].name, proc[q].resp, proc[q].pre.Accounts)

\* C3: when the fetched text does not deserialize into an Inventory, the held
\* Inventory is left unchanged.
C3_BadTextLeavesHeldUnchanged ==
    \A q \in Procs :
        AfterRefresh(q) /\ proc[q].err = "none" /\ ~UnmarshalOK(Parse(proc[q].val))
            => Held = proc[q].pre

\* C4: after a successful load of S, getAccounts / getClusters / getInstances
\* return exactly the accounts / clusters / instances of S.  Stated for the
\* requests that are answered with a list.
C4_ListsExactlyTheSnapshot ==
    \A q \in Procs :
        /\ proc[q].pc = "done"
        /\ RefreshSucceeded(q)
        /\ proc[q].op \in {"getAccounts", "getClusters", "getInstances"}
        /\ proc[q].resp.kind = "list"
        => ListsExactly(proc[q].op, proc[q].name, proc[q].resp, Encoded(proc[q].val).Accounts)

\* C5: what a query's traversal reads is one snapshot produced by a single
\* deserialization, never a mix of two.
C5_TraversalReadsOneSnapshot ==
    \A q \in Procs :
        proc[q].pc = "done" /\ proc[q].resp.kind = "list"
            => \E t \in Blobs \cup {EmptyText} : proc[q].seen = Encoded(t).Accounts

\* C6: a query whose own refresh fetched a text successfully answers from an
\* inventory at least as recent as that text.  Stated for a query that has
\* fetched the newest text there is: what it reads for each account of that
\* text is that text's account.
C6_ReadsAtLeastOwnFetch ==
    \A q \in Procs :
        /\ proc[q].pc = "done"
        /\ RefreshSucceeded(q)
        /\ proc[q].fver = storeVer
        /\ proc[q].resp.kind \in {"list", "account", "notfound"}
        => \A k \in DOMAIN Encoded(proc[q].val).Accounts :
              /\ k \in DOMAIN proc[q].seen
              /\ proc[q].seen[k] = Encoded(proc[q].val).Accounts[k]

\* C7: getAccountsByName answers with the Account stored under the key when
\* the key is present and with 404 exactly when it is absent.
C7_LookupByKey ==
    \A q \in Procs :
        proc[q].pc = "done" /\ proc[q].op = "getAccountsByName" =>
            proc[q].resp = IF proc[q].name \in DOMAIN Held.Accounts
                           THEN AccountBody(Held.Accounts[proc[q].name])
                           ELSE NotFound

\* C8: getClustersByName returns exactly the clusters of the held Inventory
\* whose name equals the parameter, one entry per (account, cluster) pair,
\* and an empty list when there is none.
C8_ClustersByName ==
    \A q \in Procs :
        proc[q].pc = "done" /\ proc[q].op = "getClustersByName" =>
            ListsExactly(proc[q].op, proc[q].name, proc[q].resp, Held.Accounts)

\* C9: every list response carries a count equal to the number of its items,
\* and its collection is never the nil slice: with no item it is the empty
\* slice with count 0.
C9_CountMatchesAndNeverNull ==
    \A q \in Procs :
        proc[q].resp.kind = "list" =>
            /\ proc[q].resp.Count = Len(proc[q].resp.Items.elems)
            /\ ~proc[q].resp.Items.isNil
            /\ proc[q].acc.elems = proc[q].resp.Items.elems

\* a list handler answered with no item: the slice it collected was nil
C9_Witness ==
    \E q \in Procs :
        /\ proc[q].pc = "done"
        /\ proc[q].resp.kind = "list"
        /\ proc[q].acc.isNil
        /\ proc[q].resp.Count = 0

\* C10: while no load has ever succeeded, every list query returns an empty
\* collection with count 0, not an error.
C10_NeverLoadedListsEmpty ==
    \A q \in Procs :
        proc[q].pc = "done" /\ ~loaded /\ proc[q].op \in ListOps =>
            /\ proc[q].resp.kind = "list"
            /\ proc[q].resp.Count = 0
            /\ proc[q].resp.Items = Slice(<<>>)

\* q's request is answered and is the second of two successive calls of the
\* same query with the same parameter, the store was not written between the
\* two fetches, and the two fetches had the same outcome
SecondOfTwo(q) ==
    /\ proc[q].pc = "done"
    /\ proc[q].prev.resp.kind # "none"
    /\ proc[q].prev.fver = proc[q].fver
    /\ proc[q].prev.failed = (proc[q].err # "none")

\* two responses are the same but for the order of the items of a list
SameUpToOrder(r1, r2) ==
    /\ r1.kind = r2.kind
    /\ r1.status = r2.status
    /\ r1.Count = r2.Count
    /\ r1.Body = r2.Body
    /\ r1.Items.isNil = r2.Items.isNil
    /\ Len(r1.Items.elems) = Len(r2.Items.elems)
    /\ \A i \in DOMAIN r1.Items.elems :
         Cardinality({j \in DOMAIN r1.Items.elems : r1.Items.elems[j] = r1.Items.elems[i]})
         = Cardinality({j \in DOMAIN r2.Items.elems : r2.Items.elems[j] = r1.Items.elems[i]})

\* C11: a query called twice in succession, with no change of the store in
\* between and no concurrent query, gives identical results: the same
\* sequence and count, or the same Account / NotFound outcome.
C11_TwiceIdentical ==
    \A q \in Procs : SecondOfTwo(q) => proc[q].resp = proc[q].prev.resp

\* what the two calls do agree on: the outcome, the count and the items
\* returned, in whatever order
C11_TwiceSameUpToOrder ==
    \A q \in Procs : SecondOfTwo(q) => SameUpToOrder(proc[q].resp, proc[q].prev.resp)

\* C12: an account is replaced as a whole by a load: when a text that
\* deserializes without error names an account the held Inventory already
\* has, the held Account after the refresh is the one the text gives, with
\* exactly its clusters and instances and none of the earlier ones.
C12_AccountReplacedWholesale ==
    \A q \in Procs :
        AfterRefresh(q) /\ RefreshSucceeded(q) =>
            \A k \in DOMAIN proc[q].pre.Accounts \cap DOMAIN Encoded(proc[q].val).Accounts :
                /\ ~Held.isNil
                /\ k \in DOMAIN Held.Accounts
                /\ Held.Accounts[k] = Encoded(proc[q].val).Accounts[k]

\* a refresh has loaded an account that was held with a cluster the new text
\* does not give it
C12_Witness ==
    \E q \in Procs :
        /\ AfterRefresh(q)
        /\ RefreshSucceeded(q)
        /\ \E k \in DOMAIN proc[q].pre.Accounts \cap DOMAIN Encoded(proc[q].val).Accounts :
             \E c \in DOMAIN proc[q].pre.Accounts[k].Clusters :
                c \notin DOMAIN Encoded(proc[q].val).Accounts[k].Clusters

\* q's request is answered (its handler did not panic), the text its own
\* refresh fetched deserialized without error and gives at least one account,
\* and a lookup asked for an account the text gives
QueryOfFetched(q) ==
    /\ proc[q].pc = "done"
    /\ proc[q].resp # Panicked
    /\ RefreshSucceeded(q)
    /\ DOMAIN Encoded(proc[q].val).Accounts # {}
    /\ proc[q].op = "getAccountsByName" => proc[q].name \in DOMAIN Encoded(proc[q].val).Accounts

\* q answered from the text it fetched: a lookup with the account as that
\* text gives it, a list handler with items built from every account of that
\* text as the text gives it
AnswersFromOwnFetch(q) ==
    LET given == Encoded(proc[q].val).Accounts IN
    IF proc[q].op = "getAccountsByName"
    THEN proc[q].resp = AccountBody(given[proc[q].name])
    ELSE /\ proc[q].resp.kind = "list"
         /\ \A k \in DOMAIN given : k \in DOMAIN proc[q].seen /\ proc[q].seen[k] = given[k]

\* C13: no ordering is guaranteed between concurrent queries: the
\* interleaving C13_Witness is reachable, in which the later-arriving query
\* answers from the older text after the earlier-arriving query has answered
\* from the newer one.  The lack of order is between concurrent queries and
\* only there: whichever handler serves it, a query that overlaps no other
\* query and is answered, is answered from the text its own refresh fetched
\* (a handler that meets a null cluster panics and answers nothing, C8).
C13_StaleOnlyWhenOverlapping ==
    \A q \in Procs : QueryOfFetched(q) /\ ~proc[q].overl => AnswersFromOwnFetch(q)

\* two requests GET /accounts: p's arrived before q's and fetched a newer
\* text than q's; each answered from the text it fetched, q after p, and the
\* answers differ
C13_Witness ==
    \E p, q \in Procs :
        /\ p \in proc[q].after
        /\ p \in proc[q].before
        /\ proc[p].op = "getAccounts" /\ proc[q].op = "getAccounts"
        /\ QueryOfFetched(p) /\ AnswersFromOwnFetch(p)
        /\ QueryOfFetched(q) /\ AnswersFromOwnFetch(q)
        /\ proc[q].fver < proc[p].fver
        /\ proc[q].resp # proc[p].resp

\* the held Inventory as the program has it: the variable and what it refers to
heap == <<inven, structs, maps>>

\* the positions of a request inside json.Unmarshal, after its first step
InUnmarshal == {"new", "elem", "field", "mkmap", "write", "copy"}

\* C14: every query makes exactly one refresh attempt, with one fetch of the
\* key, and starts reading the held Inventory only after the attempt has
\* returned; the held Inventory is written only by a query's refresh step,
\* never in the background and never by the traversal of a query.
C14_OneRefreshThenRead ==
    /\ [](\A q \in Procs :
            /\ proc[q].pc = "get" => proc[q].gets = 0 /\ proc[q].unms = 0
            /\ proc[q].pc = "unmarshal" => proc[q].gets = 1 /\ proc[q].unms = 0
            /\ proc[q].pc \in InUnmarshal \cup {"read", "accounts", "range", "done"} =>
                  proc[q].gets = 1 /\ proc[q].unms = 1)
    /\ [][heap' # heap =>
            \E q \in Procs : /\ proc[q].pc \in {"unmarshal"} \cup InUnmarshal
                             /\ proc'[q] # proc[q]]_vars

\* a query has answered with items after a refresh that changed the held
\* Inventory
C14_Witness ==
    \E q \in Procs :
        /\ proc[q].pc = "done"
        /\ proc[q].resp.kind = "list"
        /\ proc[q].resp.Count > 0
        /\ proc[q].gets = 1
        /\ Held # proc[q].pre

\* the instance sequences of the clusters of the accounts map A, one after
\* the other in the order o of its (account, cluster) pairs
RECURSIVE InstancesInOrder(_, _)
InstancesInOrder(A, o) ==
    IF o = <<>> THEN <<>>
    ELSE A[Head(o)[1]].Clusters[Head(o)[2]].Instances \o InstancesInOrder(A, Tail(o))

\* C15: in the result of getInstances the instances of each cluster stand
\* together, in the order of the cluster's own instance sequence, whatever
\* the order in which accounts and clusters were iterated: the result is the
\* clusters' sequences one after the other, in some order of the clusters.
C15_ClusterRunsKeepOrder ==
    \A q \in Procs :
        proc[q].pc = "done" /\ proc[q].op = "getInstances" /\ proc[q].resp.kind = "list" =>
            \E o \in Orders(ClusterIndex(proc[q].seen)) :
                proc[q].resp.Items.elems = InstancesInOrder(proc[q].seen, o)

\* getInstances answered with a cluster's two instances after the instance
\* of another cluster
C15_Witness ==
    \E q \in Procs :
        /\ proc[q].pc = "done"
        /\ proc[q].op = "getInstances"
        /\ proc[q].resp.kind = "list"
        /\ proc[q].resp.Items.elems = <<3, 1, 2>>
        /\ Cardinality(ClusterIndex(proc[q].seen)) = 2

\* the fetch of q's request failed: the key was not found, or the store
\* could not be reached
FetchFailed(q) == proc[q].err \in {"nil", "conn"}

\* C16: the two kinds of retrieval failure, key not found and store
\* unreachable, have the same effect: the failure is logged, the held
\* Inventory is unchanged, and the query continues to its read of the held
\* Inventory.
C16_FailuresHandledAlike ==
    \A q \in Procs :
        /\ proc[q].logged = FetchFailed(q)
        /\ FetchFailed(q) =>
             /\ proc[q].val = EmptyText
             /\ proc[q].pc \in {"unmarshal", "read", "accounts", "range", "done"}
             /\ proc[q].pc # "unmarshal" => proc[q].unms = 1
             /\ AfterRefresh(q) => Held = proc[q].pre

\* a query reads the accounts held from an earlier load after a fetch that
\* did not find the key
C16_Witness ==
    \E q \in Procs :
        /\ AfterRefresh(q)
        /\ proc[q].err = "nil"
        /\ proc[q].logged
        /\ DOMAIN Held.Accounts # {}

\* C17: whatever texts the refresh attempts have met, the serialized null
\* and the empty value included, the held Inventory reference is never
\* null, so that no traversal dereferences a null reference.
C17_HeldNeverNil == inven # Nil

\* C18: when the fetch fails updateStock does not stop after logging: it
\* goes on to deserialize the empty value that came with the error, and that
\* step installs no empty Inventory and clears no account: it leaves the
\* held Inventory as it is.
C18_FailedFetchStillDecodes ==
    [][\A q \in Procs :
         /\ proc[q].pc = "get" /\ proc'[q].pc # "get" /\ proc'[q].err # "none" =>
               /\ proc'[q].pc = "unmarshal"
               /\ proc'[q].val = EmptyText
         /\ proc[q].pc = "unmarshal" /\ proc[q].err # "none" /\ proc'[q].pc # "unmarshal" =>
               /\ proc'[q].unms = proc[q].unms + 1
               /\ proc'[q].pc = "read"
               /\ heap' = heap]_vars

\* the store holds a text but could not be reached: the deserialization has
\* run on the empty value and the accounts held before are still held
C18_Witness ==
    \E q \in Procs :
        /\ AfterRefresh(q)
        /\ proc[q].err = "conn"
        /\ proc[q].unms = 1
        /\ store \notin {NoKey, EmptyText}
        /\ Held = proc[q].pre
        /\ DOMAIN Held.Accounts # {}
====
